---- MODULE Spec2Model ----
(***************************************************************************)
(* Model of the notification-system server (src/main.py): the three HTTP   *)
(* handlers over the Firestore settings document and the BigQuery mentions *)
(* table.  Strings are sequences of one-character strings, so that strip,  *)
(* split, join and the sender pattern are computed as Python computes      *)
(* them.                                                                   *)
(***************************************************************************)
EXTENDS Integers, Sequences, FiniteSets, TLC

VARIABLES
  doc,      \* the settings/configuration document of the store
  op,       \* the handler that ran last: "none", "GET", "POST", "MENTIONS"
  body,     \* the request of the last POST
  prev,     \* the document as it was when the last handler started
  writes,   \* the doc_ref.set payloads the last handler issued, in order
  resp,     \* what the last handler answered
  raised,   \* the last handler's call to its external store raised
  initDoc,  \* concurrent runs: the document before any request
  reqs      \* concurrent runs: each in-flight POST's position and locals

vars == <<doc, op, body, prev, writes, resp, raised, initDoc, reqs>>

----------------------------------------------------------------------------
(* Bounds *)

MaxLen == 4     \* longest recipients string enumerated exhaustively
MaxRows == 2    \* most rows a mentions query yields
NumReq == 2     \* concurrent POST requests

----------------------------------------------------------------------------
(* Python string primitives *)

\* str.isspace() / the regex class \s, on the characters the model uses
IsSpace(c) == c \in {" ", "\t", "\n", "\r"}

Contains(s, c) == \E i \in 1..Len(s) : s[i] = c

SetMin(S) == CHOOSE x \in S : \A y \in S : x <= y
SetMax(S) == CHOOSE x \in S : \A y \in S : x >= y

\* str.strip(): drop leading and trailing whitespace
Strip(s) ==
  LET keep == {i \in 1..Len(s) : ~IsSpace(s[i])}
  IN  IF keep = {} THEN <<>> ELSE SubSeq(s, SetMin(keep), SetMax(keep))

\* str.split(","): every segment, the empty ones included
RECURSIVE Split(_)
Split(s) ==
  LET commas == {i \in 1..Len(s) : s[i] = ","}
  IN  IF commas = {} THEN <<s>>
      ELSE LET i == SetMin(commas)
           IN  <<SubSeq(s, 1, i - 1)>> \o Split(SubSeq(s, i + 1, Len(s)))

\* ", ".join(list): the separator carries a space
RECURSIVE JoinCommaSpace(_)
JoinCommaSpace(list) ==
  IF list = <<>> THEN <<>>
  ELSE IF Len(list) = 1 THEN list[1]
  ELSE list[1] \o <<",", " ">> \o JoinCommaSpace(Tail(list))

\* ",".join(list)
RECURSIVE Join(_)
Join(list) ==
  IF list = <<>> THEN <<>>
  ELSE IF Len(list) = 1 THEN list[1]
  ELSE list[1] \o <<",">> \o Join(Tail(list))

\* a character of the class [^@\s]
NotAtSpace(c) == c # "@" /\ ~IsSpace(c)

\* re.match(r"[^@\s]+@[^@\s]+\.[^@\s]+", val): the pattern matches a PREFIX
\* of val; what follows the match is not looked at
\* a: where "@" is; d: where the "\." is; e: where the match ends
ReMatchSender(val) ==
  \E a \in 2..Len(val) :
    /\ val[a] = "@"
    /\ \A p \in 1..(a - 1) : NotAtSpace(val[p])
    /\ \E d \in (a + 2)..(Len(val) - 1) :
         /\ val[d] = "."
         /\ \A p \in (a + 1)..(d - 1) : NotAtSpace(val[p])
         /\ \E e \in (d + 1)..Len(val) :
              \A p \in (d + 1)..e : NotAtSpace(val[p])

----------------------------------------------------------------------------
(* JSON values of a request body (strings and null), and str() of them *)

JNull == [t |-> "null", v |-> <<>>]
JStr(s) == [t |-> "str", v |-> s]

\* str(x) of a JSON string: the string itself
PyStr(j) == j.v

FieldNames == {"sender", "password", "recipients"}

EmptyMap == [k \in {} |-> <<>>]

\* "k" in body and body["k"] is not None
Present(b, k) == k \in DOMAIN b /\ b[k].t # "null"

----------------------------------------------------------------------------
(* update_notification_settings: the three validation steps.  Each takes   *)
(* the state of the handler so far, [err, arg, updates]; err # NoErr means *)
(* the handler has returned.                                               *)

NoErr == "none"
ErrSender == "Sender must be a single valid email address."
ErrPassword == "Password must not contain whitespaces."
ErrRecipients == "Recipients must be comma-separated with NO spaces."
ErrInvalidEmail == "Invalid email in recipients: "
ErrJson == "request body is not a JSON object"
ErrStore == "store unavailable"

ValidationErrors == {ErrSender, ErrPassword, ErrRecipients, ErrInvalidEmail}

Start == [err |-> NoErr, arg |-> <<>>, updates |-> EmptyMap]

Return(st, e, a) == [err |-> e, arg |-> a, updates |-> st.updates]

Put(st, k, val) == [st EXCEPT !.updates = (k :> val) @@ st.updates]

HandleSender(b, st) ==
  IF st.err # NoErr \/ ~Present(b, "sender") THEN st
  ELSE LET val == Strip(PyStr(b["sender"]))
       IN  IF ~ReMatchSender(val) \/ Contains(val, ",")
           THEN Return(st, ErrSender, <<>>)
           ELSE Put(st, "sender", val)

HandlePassword(b, st) ==
  IF st.err # NoErr \/ ~Present(b, "password") THEN st
  ELSE LET val == Strip(PyStr(b["password"]))
       IN  IF \E i \in 1..Len(val) : IsSpace(val[i])
           THEN Return(st, ErrPassword, <<>>)
           ELSE IF val # <<>> THEN Put(st, "password", val) ELSE st

\* [e for e in val.split(",") if e]: the segments as they are, untrimmed
RawSegments(val) == SelectSeq(Split(val), LAMBDA e : e # <<>>)

\* [e.strip() for e in val.split(",") if e.strip()]
EmailList(val) ==
  LET segs == Split(val)
      stripped == [i \in 1..Len(segs) |-> Strip(segs[i])]
  IN  SelectSeq(stripped, LAMBDA e : e # <<>>)

\* the recipients step without its check for spaces
NeverHasSpace(val) == FALSE

\* the check `" " in val` of the recipients step
HasSpace(val) == Contains(val, " ")

HandleRecipients(b, st) ==
  IF st.err # NoErr \/ ~Present(b, "recipients") THEN st
  ELSE LET val == Strip(PyStr(b["recipients"]))
       IN  IF HasSpace(val) THEN Return(st, ErrRecipients, <<>>)
           ELSE LET email_list == EmailList(val)
                    bad == {i \in 1..Len(email_list) :
                              ~Contains(email_list[i], "@")}
                IN  IF bad # {}
                    THEN Return(st, ErrInvalidEmail, email_list[SetMin(bad)])
                    ELSE Put(st, "recipients", email_list)

Validate(b) == HandleRecipients(b, HandlePassword(b, HandleSender(b, Start)))

----------------------------------------------------------------------------
(* The settings document and the store *)

Missing == [exists |-> FALSE, data |-> EmptyMap]
EmptyDoc == [exists |-> TRUE, data |-> EmptyMap]

\* doc_ref.set(updates): the document becomes the payload
Replace(d, updates) == [exists |-> TRUE, data |-> updates]

\* a merge in which the fields already stored win
MergeKeepOld(d, updates) == [exists |-> TRUE, data |-> d.data @@ updates]

\* doc_ref.set(updates, merge=True)
Merge(d, updates) == [exists |-> TRUE, data |-> updates @@ d.data]

\* data.get(k, default)
DataGet(data, k, default) == IF k \in DOMAIN data THEN data[k] ELSE default

----------------------------------------------------------------------------
(* Responses *)

NoResp == [kind |-> "none"]
\* an exception that leaves the handler: the framework's error path
Fault == [kind |-> "fault"]
\* {"ok": False, "error": e + arg}
Failure(e, a) == [kind |-> "failure", error |-> e, arg |-> a]
\* {"ok": True, "message": "Settings updated successfully"}
Updated == [kind |-> "updated"]
\* {"ok": True, "settings": {...}}
Settings(s, p, r) ==
  [kind |-> "settings",
   settings |-> [sender |-> s, password |-> p, recipients |-> r]]

IsOk(r) == r.kind \in {"updated", "settings"}
IsFailure(r) == r.kind = "failure"

----------------------------------------------------------------------------
(* GET /api/notification-settings *)

\* the handler with its try/except removed
get_notification_settings_uncaught(d, fail) ==
  IF fail THEN [resp |-> Fault, doc |-> d, raised |-> TRUE]
  ELSE IF ~d.exists
  THEN [resp |-> Settings(<<>>, <<>>, <<>>), doc |-> d, raised |-> FALSE]
  ELSE [resp |-> Settings(DataGet(d.data, "sender", <<>>),
                          DataGet(d.data, "password", <<>>),
                          Join(DataGet(d.data, "recipients", <<>>))),
        doc |-> d, raised |-> FALSE]

\* the handler creating the document with the defaults on first read
get_notification_settings_creating(d, fail) ==
  IF fail THEN [resp |-> Failure(ErrStore, <<>>), doc |-> d, raised |-> TRUE]
  ELSE IF ~d.exists
  THEN [resp |-> Settings(<<>>, <<>>, <<>>), doc |-> EmptyDoc,
        raised |-> FALSE]
  ELSE [resp |-> Settings(DataGet(d.data, "sender", <<>>),
                          DataGet(d.data, "password", <<>>),
                          Join(DataGet(d.data, "recipients", <<>>))),
        doc |-> d, raised |-> FALSE]

\* d: the stored document; fail: doc_ref.get() raises
get_notification_settings(d, fail) ==
  IF fail THEN [resp |-> Failure(ErrStore, <<>>), doc |-> d, raised |-> TRUE]
  ELSE IF ~d.exists
  THEN [resp |-> Settings(<<>>, <<>>, <<>>), doc |-> d, raised |-> FALSE]
  ELSE LET data == d.data
           recipients_list == DataGet(data, "recipients", <<>>)
           recipients_str == Join(recipients_list)
       IN  [resp |-> Settings(DataGet(data, "sender", <<>>),
                              DataGet(data, "password", <<>>),
                              recipients_str),
            doc |-> d, raised |-> FALSE]

----------------------------------------------------------------------------
(* POST /api/notification-settings *)

\* a write on every valid request, also of no fields
Always(updates) == TRUE

\* `if updates:`
NonEmpty(updates) == DOMAIN updates # {}

\* the handler writing what it has validated so far when a later field fails
update_notification_settings_eager(d, req, fail) ==
  IF ~req.json
  THEN [resp |-> Failure(ErrJson, <<>>), doc |-> d, writes |-> <<>>,
        raised |-> FALSE]
  ELSE LET st == Validate(req.body)
       IN  IF NonEmpty(st.updates)
           THEN [resp |-> IF st.err # NoErr THEN Failure(st.err, st.arg)
                          ELSE Updated,
                 doc |-> Merge(d, st.updates), writes |-> <<st.updates>>,
                 raised |-> FALSE]
           ELSE [resp |-> IF st.err # NoErr THEN Failure(st.err, st.arg)
                          ELSE Updated,
                 doc |-> d, writes |-> <<>>, raised |-> FALSE]

\* d: the stored document; req: the request ([json: the body parses to an
\* object, body: its fields]); fail: doc_ref.set raises
update_notification_settings(d, req, fail) ==
  IF ~req.json
  THEN [resp |-> Failure(ErrJson, <<>>), doc |-> d, writes |-> <<>>,
        raised |-> FALSE]
  ELSE LET st == Validate(req.body)
       IN  IF st.err # NoErr
           THEN [resp |-> Failure(st.err, st.arg), doc |-> d, writes |-> <<>>,
                 raised |-> FALSE]
           ELSE IF NonEmpty(st.updates)
           THEN IF fail
                THEN [resp |-> Failure(ErrStore, <<>>), doc |-> d,
                      writes |-> <<st.updates>>, raised |-> TRUE]
                ELSE [resp |-> Updated, doc |-> Merge(d, st.updates),
                      writes |-> <<st.updates>>, raised |-> FALSE]
           ELSE [resp |-> Updated, doc |-> d, writes |-> <<>>,
                 raised |-> FALSE]

----------------------------------------------------------------------------
(* GET /api/mentions/recent *)

NoSec == [t |-> "null", n |-> 0]
Sec(n) == [t |-> "num", n |-> n]

\* f"{r.video_url}&t={int(r.start_sec)}s", or video_url when int() raises
Link(r) ==
  IF r.start_sec.t = "num"
  THEN [base |-> r.video_url, suffix |-> <<"&t=", r.start_sec.n, "s">>]
  ELSE [base |-> r.video_url, suffix |-> <<>>]

Shape(r) == [video_url |-> r.video_url, start_sec |-> r.start_sec,
             link |-> Link(r)]

\* rows: what the query yields; fail: client.query(...).result() raises,
\* and nothing in the handler catches it
get_recent_mentions(rows, fail) ==
  IF fail THEN Fault
  ELSE LET results == [i \in 1..Len(rows) |-> Shape(rows[i])]
       IN  [kind |-> "mentions", count |-> Len(results), results |-> results]

----------------------------------------------------------------------------
(* Request bodies the handlers are driven with *)

Absent == [t |-> "absent", v |-> <<>>]

\* the JSON object with the fields that are not Absent
MkBody(s, p, r) ==
  LET all == [sender |-> s, password |-> p, recipients |-> r]
  IN  [k \in {f \in FieldNames : all[f].t # "absent"} |-> all[k]]

SenderInputs ==
  { <<" ", "a", "@", "b", ".", "c", " ">>,           \* a@b.c, padded
    <<"a", ",", "b", "@", "c", ".", "d">>,           \* a,b@c.d
    <<"a", "@", "b", ".", "c", " ", "d">> }          \* a@b.c d

PasswordInputs ==
  { <<>>,
    <<" ", "p", "w", " ">>,
    <<"p", " ", "w">> }

RecipientsInputs ==
  { <<>>,
    <<"a", "@", "x", ",", "b", "@", "y">>,           \* a@x,b@y
    <<"a", "@", "x", ",", " ", "b", " ", "@", "y">>, \* a@x, b @y
    <<"a", "@", "x", ",", "n", "o">>,                \* a@x,no
    <<"a", "@", "x", "\t", ",", ",", "a", "@", "x">> }  \* a@x<TAB>,,a@x

Opts(S) == {JStr(x) : x \in S} \cup {Absent}

Bodies ==
  { MkBody(s, p, r) : s \in Opts(SenderInputs),
                      p \in Opts(PasswordInputs) \cup {JNull},
                      r \in Opts(RecipientsInputs) }

NoRequest == [json |-> FALSE, body |-> EmptyMap]

Requests == {[json |-> TRUE, body |-> b] : b \in Bodies} \cup {NoRequest}

\* every string of at most n characters over the alphabet C
RECURSIVE Str(_, _)
Str(C, n) ==
  IF n = 0 THEN {<<>>}
  ELSE LET shorter == Str(C, n - 1)
       IN  shorter \cup {Append(x, c) : x \in shorter, c \in C}

RecipientChars == {"a", "@", ",", " ", "\t"}

RecipientRequests ==
  { [json |-> TRUE, body |-> MkBody(Absent, Absent, JStr(x))] :
      x \in Str(RecipientChars, MaxLen) }

Rows == { [video_url |-> "https://x/y", start_sec |-> Sec(42)],
          [video_url |-> "https://x/y", start_sec |-> NoSec] }

RowSeqs == UNION {[1..n -> Rows] : n \in 0..MaxRows}

Idle == [pc |-> "idle", body |-> EmptyMap, updates |-> EmptyMap,
         resp |-> NoResp]

----------------------------------------------------------------------------
(* The handlers as actions, one request at a time *)

Init ==
  /\ doc \in {Missing, EmptyDoc}
  /\ op = "none"
  /\ body = NoRequest
  /\ prev = doc
  /\ writes = <<>>
  /\ resp = NoResp
  /\ raised = FALSE
  /\ initDoc = Missing
  /\ reqs = [r \in 1..NumReq |-> Idle]

GetSettings ==
  \E fail \in BOOLEAN :
    \E out \in {get_notification_settings(doc, fail)} :
        /\ doc' = out.doc
        /\ resp' = out.resp
        /\ raised' = out.raised
        /\ op' = "GET"
        /\ prev' = doc
        /\ writes' = <<>>
        /\ body' = NoRequest
        /\ UNCHANGED <<initDoc, reqs>>

Post(req) ==
  \E fail \in BOOLEAN :
    \E out \in {update_notification_settings(doc, req, fail)} :
        /\ doc' = out.doc
        /\ resp' = out.resp
        /\ raised' = out.raised
        /\ writes' = out.writes
        /\ op' = "POST"
        /\ body' = req
        /\ prev' = doc
        /\ UNCHANGED <<initDoc, reqs>>

PostSettings == \E req \in Requests : Post(req)

GetMentions ==
  \E rows \in RowSeqs, fail \in BOOLEAN :
    /\ resp' = get_recent_mentions(rows, fail)
    /\ raised' = fail
    /\ op' = "MENTIONS"
    /\ prev' = doc
    /\ writes' = <<>>
    /\ body' = NoRequest
    /\ UNCHANGED <<doc, initDoc, reqs>>

Next == GetSettings \/ PostSettings \/ GetMentions

Spec == Init /\ [][Next]_vars

----------------------------------------------------------------------------
(* One POST of a recipients string, drawn from every string of at most     *)
(* MaxLen characters, and the GETs after it                                *)

InitR ==
  /\ doc \in {Missing, EmptyDoc}
  /\ op = "none"
  /\ body \in RecipientRequests
  /\ prev = doc
  /\ writes = <<>>
  /\ resp = NoResp
  /\ raised = FALSE
  /\ initDoc = Missing
  /\ reqs = [r \in 1..NumReq |-> Idle]

PostRecipients == op = "none" /\ Post(body)

GetAfterPost == op # "none" /\ GetSettings

NextR == PostRecipients \/ GetAfterPost

SpecR == InitR /\ [][NextR]_vars

----------------------------------------------------------------------------
(* Concurrent POSTs: each request validates on its own (lines 116-147) and *)
(* then issues its one write (lines 150-153); the store applies each write *)
(* atomically, in any order                                                *)

OldDoc ==
  [exists |-> TRUE,
   data |-> [sender |-> <<"o", "@", "l", ".", "d">>,
             password |-> <<"o", "l", "d">>,
             recipients |-> <<<<"o", "@", "l">>>>]]

ConcBodies ==
  { MkBody(s, p, r) :
      s \in {JStr(<<" ", "a", "@", "b", ".", "c", " ">>),
             JStr(<<"c", "@", "b", ".", "a">>), Absent},
      p \in {JStr(<<" ", "p", "w", " ">>), JStr(<<"p", " ", "w">>), Absent},
      r \in {JStr(<<"a", "@", "x", ",", "b", "@", "y">>), Absent} }

InitC ==
  /\ doc \in {Missing, OldDoc}
  /\ initDoc = doc
  /\ reqs = [r \in 1..NumReq |-> Idle]
  /\ op = "none"
  /\ body = NoRequest
  /\ prev = doc
  /\ writes = <<>>
  /\ resp = NoResp
  /\ raised = FALSE

\* lines 116-147, and 150/156 when there is nothing to write
CValidate(r) ==
  /\ reqs[r].pc = "idle"
  /\ \E b \in ConcBodies :
       \E st \in {Validate(b)} :
         reqs' = [reqs EXCEPT ![r] =
                    IF st.err # NoErr
                    THEN [pc |-> "done", body |-> b, updates |-> st.updates,
                          resp |-> Failure(st.err, st.arg)]
                    ELSE IF NonEmpty(st.updates)
                    THEN [pc |-> "validated", body |-> b,
                          updates |-> st.updates, resp |-> NoResp]
                    ELSE [pc |-> "done", body |-> b, updates |-> st.updates,
                          resp |-> Updated]]
  /\ UNCHANGED <<doc, op, body, prev, writes, resp, raised, initDoc>>

\* lines 151-156
CWrite(r) ==
  /\ reqs[r].pc = "validated"
  /\ \E fail \in BOOLEAN :
       IF fail
       THEN /\ reqs' = [reqs EXCEPT ![r].pc = "done",
                                    ![r].resp = Failure(ErrStore, <<>>)]
            /\ doc' = doc
       ELSE /\ reqs' = [reqs EXCEPT ![r].pc = "done", ![r].resp = Updated]
            /\ doc' = Merge(doc, reqs[r].updates)
  /\ UNCHANGED <<op, body, prev, writes, resp, raised, initDoc>>

NextC == \E r \in 1..NumReq : CValidate(r) \/ CWrite(r)

SpecC == InitC /\ [][NextC]_vars

----------------------------------------------------------------------------
(* Properties *)

\* the request fields of the last POST
Fields == body.body

Posted == op = "POST" /\ body.json
Succeeded == Posted /\ resp.kind = "updated"

\* field k validated on its own, whatever the other fields are
Alone(k) ==
  IF k = "sender" THEN HandleSender(Fields, Start)
  ELSE IF k = "password" THEN HandlePassword(Fields, Start)
  ELSE HandleRecipients(Fields, Start)

SameField(d1, d2, k) ==
  /\ (k \in DOMAIN d1.data) = (k \in DOMAIN d2.data)
  /\ k \in DOMAIN d1.data => d1.data[k] = d2.data[k]

\* C1: a POST in which the validation of some present field fails is
\* answered {ok: false, error: <a validation reason>}, issues no write and
\* leaves the document as it was, also when an earlier field was valid.
C1_FailedValidationWritesNothing ==
  (Posted /\ \E k \in FieldNames : Alone(k).err # NoErr) =>
    /\ IsFailure(resp)
    /\ resp.error \in ValidationErrors
    /\ writes = <<>>
    /\ doc = prev

\* a stored document, a valid sender, and a later field that fails
C1_Witness ==
  /\ Posted
  /\ IsFailure(resp)
  /\ DOMAIN prev.data # {}
  /\ "sender" \in DOMAIN Alone("sender").updates
  /\ Alone("sender").updates["sender"] # DataGet(prev.data, "sender", <<>>)
  /\ Alone("recipients").err # NoErr

\* the field is left alone by the request: absent, null, or a password
\* that is empty once trimmed
Untouched(k) ==
  \/ ~Present(Fields, k)
  \/ k = "password" /\ Strip(PyStr(Fields[k])) = <<>>

\* C2: after a successful POST every field that the request omits, gives as
\* null or (the password) gives empty after trimming is stored exactly as
\* it was stored before the request.
C2_OmittedFieldsKept ==
  Succeeded => \A k \in FieldNames : Untouched(k) => SameField(doc, prev, k)

\* a write that changes the sender while a null password and an omitted
\* recipients list stay as stored
C2_Witness ==
  /\ Succeeded
  /\ writes # <<>>
  /\ doc # prev
  /\ "password" \in DOMAIN Fields /\ Fields["password"] = JNull
  /\ "recipients" \notin DOMAIN Fields
  /\ {"password", "recipients"} \subseteq DOMAIN prev.data
  /\ Len(prev.data["recipients"]) > 1

\* C3 as stated: a successful POST with a recognized field present issues
\* exactly one write.
C3_OneWriteWhenFieldPresent ==
  (Succeeded /\ \E k \in FieldNames : Present(Fields, k)) => Len(writes) = 1

\* the trimmed, non-empty segments of val, in order: what the recipients
\* step is to store
RECURSIVE TrimmedSegments(_)
TrimmedSegments(segs) ==
  IF segs = <<>> THEN <<>>
  ELSE IF Strip(Head(segs)) = <<>> THEN TrimmedSegments(Tail(segs))
  ELSE <<Strip(Head(segs))>> \o TrimmedSegments(Tail(segs))

Normalized(k) ==
  IF k = "recipients" THEN TrimmedSegments(Split(Strip(PyStr(Fields[k]))))
  ELSE Strip(PyStr(Fields[k]))

\* C3, amended: a successful POST issues at most one write: exactly one,
\* holding exactly the normalized values of the fields it touches, when it
\* touches a field, and none when every field is omitted, null or an
\* empty password.
C3_OneWriteOfTouchedFields ==
  Succeeded =>
    LET touched == {k \in FieldNames : ~Untouched(k)}
    IN  IF touched = {} THEN writes = <<>>
        ELSE /\ Len(writes) = 1
             /\ DOMAIN writes[1] = touched
             /\ \A k \in touched : writes[1][k] = Normalized(k)

\* all three fields given, the password empty: one write of the other two
C3_Witness ==
  /\ Succeeded
  /\ DOMAIN Fields = FieldNames
  /\ \A k \in FieldNames : Present(Fields, k)
  /\ Len(writes) = 1
  /\ DOMAIN writes[1] = {"sender", "recipients"}

\* C4: the stored sender never holds a whitespace character or a comma.
C4_SenderIsOneAddress ==
  "sender" \in DOMAIN doc.data =>
    \A i \in 1..Len(doc.data["sender"]) :
      ~IsSpace(doc.data["sender"][i]) /\ doc.data["sender"][i] # ","

\* C5: every stored recipient is non-empty, holds "@" and holds no space,
\* and the recipients string a GET returns holds no space.
C5_RecipientsHaveNoSpace ==
  /\ "recipients" \in DOMAIN doc.data =>
       \A i \in 1..Len(doc.data["recipients"]) :
         LET e == doc.data["recipients"][i]
         IN  e # <<>> /\ Contains(e, "@") /\ ~Contains(e, " ")
  /\ (op = "GET" /\ resp.kind = "settings") =>
       ~Contains(resp.settings.recipients, " ")

\* a GET that returns two stored recipients
C5_Witness ==
  /\ op = "GET"
  /\ resp.kind = "settings"
  /\ "recipients" \in DOMAIN doc.data
  /\ Len(doc.data["recipients"]) = 2
  /\ Contains(resp.settings.recipients, ",")

\* the recipients string of the last POST, trimmed
PostedRecipients == Strip(PyStr(Fields["recipients"]))

\* what a GET answers on the document as it is now
ReadBack == get_notification_settings(doc, FALSE).resp.settings.recipients

\* C6 as stated: the stored array is the non-empty comma-separated segments
\* of the trimmed input, and an input without empty segments reads back as
\* the trimmed input.
C6_StoredIsRawSegments ==
  (Succeeded /\ Present(Fields, "recipients")) =>
    LET segs == Split(PostedRecipients)
    IN  /\ doc.data["recipients"] = SelectSeq(segs, LAMBDA e : e # <<>>)
        /\ (\A i \in 1..Len(segs) : segs[i] # <<>>) =>
             ReadBack = PostedRecipients

\* C6, amended: the stored array is the comma-separated segments of the
\* trimmed input, each trimmed of surrounding whitespace, without those
\* that are empty once trimmed, in order and with duplicates; a GET returns
\* them joined by ","; an input whose segments are all non-empty and
\* already trimmed reads back as the trimmed input.
C6_StoredIsTrimmedSegments ==
  (Succeeded /\ Present(Fields, "recipients")) =>
    LET segs == Split(PostedRecipients)
    IN  /\ doc.data["recipients"] = TrimmedSegments(segs)
        /\ ReadBack = Join(TrimmedSegments(segs))
        /\ (\A i \in 1..Len(segs) :
              segs[i] # <<>> /\ Strip(segs[i]) = segs[i]) =>
             ReadBack = PostedRecipients

\* two equal recipients, the first followed by a tab
C6_Witness ==
  /\ Succeeded
  /\ Present(Fields, "recipients")
  /\ Contains(PostedRecipients, "\t")
  /\ Len(doc.data["recipients"]) = 2
  /\ doc.data["recipients"][1] = doc.data["recipients"][2]
  /\ ReadBack # PostedRecipients

\* C7: a GET issues no write and leaves the document as it was; on a
\* missing document it answers the three empty defaults and the document
\* is still missing.
C7_GetWritesNothing ==
  op = "GET" =>
    /\ doc = prev
    /\ writes = <<>>
    /\ (~prev.exists /\ ~raised) =>
         /\ resp.kind = "settings"
         /\ resp.settings =
              [sender |-> <<>>, password |-> <<>>, recipients |-> <<>>]
         /\ ~doc.exists

C7_Witness ==
  /\ op = "GET"
  /\ ~prev.exists
  /\ resp.kind = "settings"

\* the payload of the last write, again as a request: each value as
\* stored, the recipients joined by ","
Resubmitted ==
  [json |-> TRUE,
   body |-> [k \in DOMAIN writes[1] |->
               JStr(IF k = "recipients" THEN Join(writes[1][k])
                    ELSE writes[1][k])]]

\* C8: the normalized values of an accepted POST, submitted again (the
\* recipients joined by ","), are accepted, normalize to themselves and
\* leave the document unchanged.
C8_ValidatorIdempotent ==
  (Succeeded /\ writes # <<>>) =>
    LET again == update_notification_settings(doc, Resubmitted, FALSE)
    IN  /\ again.resp.kind = "updated"
        /\ again.writes = writes
        /\ again.doc = doc

\* a padded sender, a padded password and recipients with an empty segment
C8_Witness ==
  /\ Succeeded
  /\ writes # <<>>
  /\ DOMAIN writes[1] = FieldNames
  /\ writes[1]["sender"] # PyStr(Fields["sender"])
  /\ writes[1]["password"] # PyStr(Fields["password"])
  /\ Len(writes[1]["recipients"]) = 2
  /\ Resubmitted.body # Fields

\* C9: when the store raises, the two settings handlers answer
\* {ok: false, error: <message>} and the mentions handler answers nothing:
\* the exception leaves it.
C9_StoreFailures ==
  raised =>
    /\ op \in {"GET", "POST"} => IsFailure(resp) /\ resp.error = ErrStore
    /\ op = "MENTIONS" => resp = Fault

C9_Witness ==
  /\ raised
  /\ op = "GET"
  /\ prev.exists
  /\ IsFailure(resp)

\* the requests that wrote field k
Writers(k) ==
  {r \in 1..NumReq : reqs[r].resp.kind = "updated"
                     /\ k \in DOMAIN reqs[r].updates}

AllDone == \A r \in 1..NumReq : reqs[r].pc = "done"

\* C10: once every concurrent POST has answered, each field that some
\* successful request wrote holds the value of one of its writers, and each
\* field that none wrote is as it was before the requests.
C10_NoLostUpdate ==
  AllDone =>
    \A k \in FieldNames :
      IF Writers(k) = {} THEN SameField(doc, initDoc, k)
      ELSE /\ k \in DOMAIN doc.data
           /\ \E r \in Writers(k) : doc.data[k] = reqs[r].updates[k]

\* two requests on a stored document: they write different senders, one
\* of them also the password, and the recipients stay as stored
C10_Witness ==
  /\ AllDone
  /\ initDoc.exists
  /\ Writers("sender") = {1, 2}
  /\ reqs[1].updates["sender"] # reqs[2].updates["sender"]
  /\ doc.data["sender"] = reqs[1].updates["sender"]
  /\ Writers("password") = {2}
  /\ Writers("recipients") = {}

====
